---- MODULE Spec2Model ----
(***************************************************************************)
(* ContractIQ: the FastAPI backend (src/backend.py) and the Ragas testset  *)
(* generator (src/testset_generator.py) as state machines.                 *)
(*                                                                         *)
(* SpecGen     one ContractTestsetGenerator object and the calls made on   *)
(*             it, one enrichment / generation attempt per step.           *)
(* SpecBackend the process-wide globals of backend.py, the collection and  *)
(*             the request handlers.                                       *)
(*                                                                         *)
(* Collaborators (ragas transforms, ragas generator, PGVector, pdfminer,   *)
(* the LLM) are environment: each call to one of them is a nondeterministic*)
(* choice between returning and raising.  A transform pipeline that raises *)
(* is taken to leave the graph as it found it, and relationships join      *)
(* nodes, so a pipeline applied to a graph without nodes adds none.        *)
(***************************************************************************)
EXTENDS Integers, Sequences, FiniteSets, TLC

VARIABLES
    \* ---- testset_generator.py: ContractTestsetGenerator ----
    gemini_api_key,   \* os.getenv("GEMINI_API_KEY") is set
    constructed,      \* a ContractTestsetGenerator object exists
    max_retries,      \* self.max_retries
    retry_delay,      \* self.retry_delay
    knowledge_graph,  \* self.knowledge_graph (NoGraph is None)
    generator,        \* self.generator is not None
    pc,               \* position of the call in progress
    call,             \* arguments of the call in progress / last call
    kg,               \* local kg of create_knowledge_graph_from_documents
    skip_transforms,  \* local skip_transforms (line 133 rewrites it)
    sampled_docs,     \* local sampled_docs / minimal_docs handed to default_transforms
    attempt,          \* loop variable of the retry loop in progress
    testset,          \* local testset of generate_testset (Unbound before assignment)
    log,              \* collaborator calls and sleeps of the method call in progress / last ended
    result,           \* how the last call ended
    files,            \* paths written by kg.save / df.to_csv
    now,              \* datetime.now(), in seconds
    calls,            \* top-level calls started so far
    \* ---- backend.py ----
    store,            \* the PGVector collection: chunks in store order
    groq_api_key,     \* DB_CONFIG["groq_api_key"] is set
    init_state,       \* initialize_system: "not_run", "ok" or "failed"
    EMBEDDINGS,       \* the global is not None
    VECTOR_STORE,     \* the global is not None
    LLM,              \* the global is not None
    QA_CHAIN,         \* the global is not None
    pending,          \* ingest requests suspended at `await file.read()` (line 282)
    temp_files,       \* temporary files that exist
    response          \* the response of the request handled last

genVars == <<gemini_api_key, constructed, max_retries, retry_delay, knowledge_graph,
             generator, pc, call, kg, skip_transforms, sampled_docs, attempt, testset, log,
             result, files, now, calls>>

backVars == <<groq_api_key, init_state, EMBEDDINGS, VECTOR_STORE, LLM, QA_CHAIN, pending,
              temp_files, response>>

vars == <<genVars, store, backVars>>

(***************************************************************************)
(* Bounds of the model                                                     *)
(***************************************************************************)
MaxRetries == 2          \* max_retries is drawn from 0..MaxRetries
MaxCalls == 2            \* calls that build a graph or generate a testset, per behaviour
MaxRuns == 2             \* runs of generate_from_vector_store / create_testset_from_documents
MaxChunks == 2           \* chunks chunk_by_title makes of one file
MaxStore == 3            \* chunks the collection holds
MaxPending == 1          \* ingest requests suspended at once
MaxClock == 1            \* seconds the clock may advance

(***************************************************************************)
(* Program constants                                                       *)
(***************************************************************************)
DefaultMaxRetries == 2
DefaultRetryDelay == 30
MinimalDocs == 5
max_docs_for_transforms == 30
max_chunks == 100
MinTextLen == 100
num_results == 5

(***************************************************************************)
(* Values                                                                  *)
(***************************************************************************)
PdfNames == {"a.pdf", "b.pdf"}

NoFile == "None"

NoPath == [kind |-> "none", ts |-> 0]

UserKgPath == [kind |-> "user_kg", ts |-> 0]

UserCsvPath == [kind |-> "user_csv", ts |-> 0]

\* os.path.join(save_dir, f"knowledge_graph_{timestamp}.json"), one second per timestamp
KgPath(timestamp) == [kind |-> "knowledge_graph", ts |-> timestamp]

\* os.path.join(save_dir, f"testset_{timestamp}.csv")
TestsetPath(timestamp) == [kind |-> "testset", ts |-> timestamp]

NoGraph == [nodes |-> <<>>, relationships |-> -1]

Unbound == -1

\* chunk_by_title(elements, ...): n chunks, chunk i holding the i-th part of the text
ChunkByTitle(n) == [i \in 1..n |-> i]

\* Mutant: the chunks are numbered as enumerate numbers them by default, from 0.
chunk_text_from_zero(chunks, source_file) ==
    [i \in 1..Len(chunks) |->
        [source_file |-> source_file, chunk_id |-> i - 1,
         page_content |-> chunks[i], total_chunks |-> Len(chunks)]]

\* lines 113-126: for i, chunk in enumerate(chunks, 1)
chunk_text(chunks, source_file) ==
    [i \in 1..Len(chunks) |->
        [source_file |-> source_file, chunk_id |-> i,
         page_content |-> chunks[i], total_chunks |-> Len(chunks)]]

\* The documents chunk_text makes of one file that the chunker cuts in n chunks.
Corpus(f, n) == chunk_text(ChunkByTitle(n), f)

\* Mutant: the nodes are made with the type of a split chunk.
NodeOfChunkType(doc) == [properties |-> doc, type |-> "CHUNK"]

\* Node(type=NodeType.DOCUMENT, properties={page_content, document_metadata})
Node(doc) == [properties |-> doc, type |-> "DOCUMENT"]

\* Mutant: the build goes on from the graph the object already holds.
KnowledgeGraphReused(held) == IF held.relationships < 0 THEN [nodes |-> <<>>, relationships |-> 0]
                              ELSE held

\* line 96: kg = KnowledgeGraph(), whatever self.knowledge_graph holds
KnowledgeGraph(held) == [nodes |-> <<>>, relationships |-> 0]

\* apply_transforms(kg, transforms) that returned (lines 127 and 165), having
\* found rels relationships among its nodes
apply_transforms(enriched, rels) ==
    [enriched EXCEPT !.relationships = IF enriched.nodes = <<>> THEN @ ELSE @ + rels]

Min(a, b) == IF a < b THEN a ELSE b

\* s[:n]
Prefix(s, n) == SubSeq(s, 1, Min(n, Len(s)))

\* [s[i] for i in range(0, len(s), step)]
Stride(s, step) == [j \in 1..((Len(s) + step - 1) \div step) |-> s[(j - 1) * step + 1]]

\* minimal_docs = documents[:min(5, len(documents))]
MinimalSample(documents) == Prefix(documents, Min(MinimalDocs, Len(documents)))

\* Mutant: the strided list is not cut to max_docs_for_transforms items.
SampleUntruncated(documents) ==
    IF Len(documents) > max_docs_for_transforms
    THEN Stride(documents, Len(documents) \div max_docs_for_transforms)
    ELSE documents

\* sampled_docs of the full-mode branch
Sample(documents) ==
    IF Len(documents) > max_docs_for_transforms
    THEN Prefix(Stride(documents, Len(documents) \div max_docs_for_transforms),
                max_docs_for_transforms)
    ELSE documents

\* Numbers of chunks handed to the builder: none, one, more than the fast-mode prefix.
DocCounts == {0, 1, MinimalDocs + 1}

\* Messages of the exceptions a collaborator may raise.
Errors == {"rate_limit_exceeded", "429 Too Many Requests", "connection reset"}

Outcomes == {"ok"} \cup Errors

\* "rate_limit" in error_str.lower()
MentionsRateLimit(error_str) == error_str \in {"rate_limit_exceeded"}

\* "429" in error_str
Mentions429(error_str) == error_str \in {"429 Too Many Requests"}

IsRateLimit(error_str) == MentionsRateLimit(error_str) \/ Mentions429(error_str)

Event(ev, res, secs) == [ev |-> ev, res |-> res, secs |-> secs]

\* The arguments of a call; fast: skip_transforms / fast_mode as the caller passed it.
NoCall == [timestamp |-> 0, source_file |-> NoFile, documents |-> <<>>, fast |-> FALSE,
           op |-> "none", save_path |-> NoPath, testset_path |-> NoPath,
           testset_size |-> 0]

NoResult == [nodes |-> Unbound, relationships |-> Unbound, op |-> "none",
             after |-> Unbound, error |-> "", outcome |-> "none", rows |-> Unbound]

\* outcome: "returned", or the exception that left the call; error: its message.
\* nodes, relationships: len(kg.nodes), len(kg.relationships) of the graph returned.
Result(op, outcome, error, rows, graph) ==
    [nodes |-> IF graph = NoGraph THEN Unbound ELSE Len(graph.nodes),
     relationships |-> graph.relationships, op |-> op,
     after |-> Unbound, error |-> error, outcome |-> outcome, rows |-> rows]

\* Exception(f"Rate limit exceeded after {self.max_retries} attempts. ...")
RateLimitExceeded(op, mr) ==
    [Result(op, "RateLimitExceeded", "Rate limit exceeded", Unbound, NoGraph)
     EXCEPT !.after = mr]

\* Writing a path replaces what it held.
Write(fs, path, graph, rows) ==
    {f \in fs : f.path # path} \cup {[rows |-> rows, graph |-> graph, path |-> path]}

\* vector_store.similarity_search("", k=max_chunks, filter=...)
Search(source_file) ==
    Prefix(SelectSeq(store, LAMBDA d : source_file = NoFile \/ d.source_file = source_file),
           max_chunks)

(***************************************************************************)
(* testset_generator.py: decisions                                         *)
(***************************************************************************)
\* Mutant: a failed minimal enrichment leaves fast mode on.
SkipAfterMinimalFailureKept == TRUE

\* line 133: what skip_transforms becomes when the minimal enrichment raised
SkipAfterMinimalFailure == FALSE

\* Mutant: the retry loops run once more than max_retries.
InRangeInclusive(att, mr) == att <= mr

\* for attempt in range(self.max_retries): whether the body runs for attempt att
InRange(att, mr) == att < mr

\* Mutant: a rate-limited enrichment is not retried.
EnrichOnErrorNoRetry(error_str, att, mr) == "break"

\* Mutant: every enrichment error is retried, not only rate limits.
EnrichOnErrorRetryAll(error_str, att, mr) == IF att < mr - 1 THEN "sleep" ELSE "break"

\* lines 168-181: the except clause of one enrichment attempt
EnrichOnError(error_str, att, mr) ==
    IF IsRateLimit(error_str)
    THEN IF att < mr - 1 THEN "sleep" ELSE "break"
    ELSE "break"

\* lines 183-185: the outer except of the enrichment block
OuterExcept == "continue"

\* Mutant: every generation error is retried, not only rate limits.
GenerateOnErrorRetryAll(error_str, att, mr) ==
    IF att < mr - 1 THEN "sleep"
    ELSE IF IsRateLimit(error_str) THEN "raise_rate_limit" ELSE "reraise"

\* Mutant: the generation loop sleeps after its last attempt too.
GenerateOnErrorSleepLast(error_str, att, mr) ==
    IF IsRateLimit(error_str)
    THEN IF att < mr THEN "sleep" ELSE "raise_rate_limit"
    ELSE "reraise"

\* lines 259-268: the except clause of one generation attempt
GenerateOnError(error_str, att, mr) ==
    IF IsRateLimit(error_str)
    THEN IF att < mr - 1 THEN "sleep" ELSE "raise_rate_limit"
    ELSE "reraise"

\* Mutant: the graph is not checked.
GraphMissingUnchecked(graph) == FALSE

\* line 230
GraphMissing(graph) == graph = NoGraph

\* Mutant: the graph is never saved.
SnapshotNeverSaved(save_path) == FALSE

\* line 189: if save_path
SaveSnapshot(save_path) == save_path # NoPath

\* time.sleep(self.retry_delay)
SleepSeconds(delay) == delay

(***************************************************************************)
(* testset_generator.py: steps                                             *)
(***************************************************************************)
config == <<gemini_api_key, max_retries, retry_delay>>

locals == <<kg, skip_transforms, sampled_docs, attempt, testset>>

Idle == pc = "idle"

MayCall == Idle /\ calls < MaxCalls

MayRun == Idle /\ calls < MaxRuns

\* The locals of a call are gone when it returns or raises.
NoLocals ==
    /\ kg' = NoGraph
    /\ skip_transforms' = FALSE
    /\ sampled_docs' = <<>>
    /\ attempt' = 0
    /\ testset' = Unbound

\* How a top-level call ends: the object of create_testset_from_documents is a
\* local of that function and goes with it.
Ends(op, res) ==
    /\ pc' = "idle"
    /\ result' = res
    /\ constructed' = (op # "ctfd")
    /\ NoLocals

\* ContractTestsetGenerator.__init__
Construct(mr, rd) ==
    /\ Idle /\ ~constructed
    /\ max_retries' = mr
    /\ retry_delay' = rd
    /\ constructed' = gemini_api_key
    /\ knowledge_graph' = NoGraph
    /\ generator' = FALSE
    /\ result' = IF gemini_api_key THEN NoResult
                 ELSE Result("init", "ValueError", "GEMINI_API_KEY not found", Unbound, NoGraph)
    /\ call' = NoCall
    /\ log' = <<>>
    /\ UNCHANGED <<gemini_api_key, pc, locals, files, now, calls, store, backVars>>

\* lines 93-116 and 135-150 of create_knowledge_graph_from_documents: the nodes,
\* then the branch to the minimal enrichment or to the retry loop.
KgEnter(c, skip, mr) ==
    /\ call' = c
    /\ kg' = [KnowledgeGraph(knowledge_graph) EXCEPT
                 !.nodes = @ \o [i \in 1..Len(c.documents) |-> Node(c.documents[i])]]
    /\ skip_transforms' = skip
    /\ attempt' = 0
    /\ testset' = Unbound
    /\ log' = <<>>
    /\ result' = NoResult
    /\ calls' = calls + 1
    /\ IF skip
       THEN sampled_docs' = MinimalSample(c.documents) /\ pc' = "kg_minimal"
       ELSE /\ sampled_docs' = Sample(c.documents)
            /\ pc' = IF InRange(0, mr) THEN "kg_loop" ELSE "kg_done"

CreateKnowledgeGraph(documents, save_path, skip) ==
    /\ MayCall /\ constructed
    /\ KgEnter([NoCall EXCEPT !.op = "kg", !.documents = documents, !.fast = skip,
                               !.save_path = save_path],
               skip, max_retries)
    /\ UNCHANGED <<config, constructed, knowledge_graph, generator, files, now, store, backVars>>

\* lines 116-133: the minimal enrichment of fast mode, tried once
MinimalEnrichment(out, rels) ==
    /\ pc = "kg_minimal"
    /\ log' = Append(log, Event("minimal", out, 0))
    /\ IF out = "ok"
       THEN /\ kg' = apply_transforms(kg, rels)
            /\ UNCHANGED <<skip_transforms, sampled_docs>>
            /\ pc' = "kg_done"
       ELSE /\ kg' = kg
            /\ skip_transforms' = SkipAfterMinimalFailure
            /\ IF SkipAfterMinimalFailure
               THEN UNCHANGED sampled_docs /\ pc' = "kg_done"
               ELSE /\ sampled_docs' = Sample(call.documents)
                    /\ pc' = IF InRange(0, max_retries) THEN "kg_loop" ELSE "kg_done"
    /\ UNCHANGED <<config, constructed, knowledge_graph, generator, call, attempt, testset,
                   result, files, now, calls, store, backVars>>

\* lines 154-185: one pass of the enrichment retry loop
EnrichAttempt(out, rels) ==
    /\ pc = "kg_loop"
    /\ LET do == IF out = "ok" THEN "break" ELSE EnrichOnError(out, attempt, max_retries)
           called == Append(log, Event("enrich", out, 0))
           tail == <<skip_transforms, sampled_docs, testset, result, constructed>>
       IN  CASE do = "sleep" ->
                  /\ log' = Append(called, Event("sleep_enrich", "", SleepSeconds(retry_delay)))
                  /\ attempt' = attempt + 1
                  /\ pc' = IF InRange(attempt + 1, max_retries) THEN "kg_loop" ELSE "kg_done"
                  /\ UNCHANGED <<kg, tail>>
             [] do = "break" ->
                  /\ log' = called
                  /\ kg' = IF out = "ok" THEN apply_transforms(kg, rels) ELSE kg
                  /\ pc' = "kg_done"
                  /\ UNCHANGED <<attempt, tail>>
             [] OTHER ->
                  /\ log' = called
                  /\ IF OuterExcept = "continue"
                     THEN pc' = "kg_done" /\ UNCHANGED <<kg, attempt, tail>>
                     ELSE Ends(call.op, Result(call.op, "reraised", out, Unbound, NoGraph))
    /\ UNCHANGED <<config, knowledge_graph, generator, call, files, now, calls, store, backVars>>

\* lines 230-248 of generate_testset
GtEnter(op, mr) ==
    IF GraphMissing(knowledge_graph')
    THEN /\ Ends(op, Result(op, "ValueError", "Knowledge graph not created", Unbound, NoGraph))
         /\ log' = <<>>
         /\ UNCHANGED generator
    ELSE /\ generator' = TRUE
         /\ NoLocals
         /\ log' = <<>>
         /\ pc' = IF InRange(0, mr) THEN "gt_loop" ELSE "gt_done"
         /\ result' = NoResult
         /\ UNCHANGED constructed

\* lines 187-195: save, publish and return the graph; generate_from_vector_store
\* (line 356) and create_testset_from_documents (line 413) go on to generate_testset.
KgFinish ==
    /\ pc = "kg_done"
    /\ files' = IF SaveSnapshot(call.save_path) THEN Write(files, call.save_path, kg, Unbound)
                ELSE files
    /\ knowledge_graph' = kg
    /\ IF call.op = "kg"
       THEN Ends("kg", Result("kg", "returned", "", Unbound, kg)) /\ UNCHANGED <<generator, log>>
       ELSE GtEnter(call.op, max_retries)
    /\ UNCHANGED <<config, call, now, calls, store, backVars>>

\* load_knowledge_graph, on a snapshot written earlier
LoadKnowledgeGraph(f) ==
    /\ Idle /\ constructed
    /\ f \in files /\ f.graph # NoGraph
    /\ knowledge_graph' = f.graph
    /\ call' = [NoCall EXCEPT !.op = "load", !.save_path = f.path]
    /\ log' = <<>>
    /\ Ends("load", Result("load", "returned", "", Unbound, f.graph))
    /\ UNCHANGED <<config, generator, files, now, calls, store, backVars>>

\* generate_testset called directly
GenerateTestset(testset_size, save_path) ==
    /\ MayCall /\ constructed
    /\ call' = [NoCall EXCEPT !.op = "gt", !.testset_size = testset_size,
                              !.testset_path = save_path]
    /\ calls' = calls + 1
    /\ knowledge_graph' = knowledge_graph
    /\ GtEnter("gt", max_retries)
    /\ UNCHANGED <<config, files, now, store, backVars>>

\* lines 251-268: one pass of the generation retry loop
GenerateAttempt(out, rows) ==
    /\ pc = "gt_loop"
    /\ LET do == IF out = "ok" THEN "break" ELSE GenerateOnError(out, attempt, max_retries)
           called == Append(log, Event("generate", out, 0))
           tail == <<kg, skip_transforms, sampled_docs, result, constructed>>
       IN  CASE do = "break" ->
                  /\ log' = called
                  /\ testset' = rows
                  /\ pc' = "gt_done"
                  /\ UNCHANGED <<attempt, tail>>
             [] do = "sleep" ->
                  /\ log' = Append(called, Event("sleep_generate", "", SleepSeconds(retry_delay)))
                  /\ attempt' = attempt + 1
                  /\ pc' = IF InRange(attempt + 1, max_retries) THEN "gt_loop" ELSE "gt_done"
                  /\ UNCHANGED <<testset, tail>>
             [] do = "raise_rate_limit" ->
                  /\ log' = called
                  /\ Ends(call.op, RateLimitExceeded(call.op, max_retries))
             [] OTHER ->
                  /\ log' = called
                  /\ Ends(call.op, Result(call.op, "reraised", out, Unbound, NoGraph))
    /\ UNCHANGED <<config, knowledge_graph, generator, call, files, now, calls, store, backVars>>

\* lines 270-279: testset.to_pandas(), df.to_csv, return (and lines 361-378 of
\* generate_from_vector_store, lines 415-427 of create_testset_from_documents)
GtFinish ==
    /\ pc = "gt_done"
    /\ IF testset = Unbound
       THEN /\ Ends(call.op, Result(call.op, "UnboundLocalError", "testset", Unbound, NoGraph))
            /\ UNCHANGED files
       ELSE /\ files' = IF call.testset_path # NoPath
                        THEN Write(files, call.testset_path, NoGraph, testset)
                        ELSE files
            /\ Ends(call.op, Result(call.op, "returned", "", testset, knowledge_graph))
    /\ UNCHANGED <<config, knowledge_graph, generator, call, log, now, calls, store, backVars>>

\* generate_from_vector_store, lines 304-353
GenerateFromVectorStore(source_file, save, fast_mode, testset_size) ==
    /\ MayRun /\ constructed
    /\ LET all_docs == Search(source_file)
           c == [timestamp |-> now, source_file |-> source_file, documents |-> all_docs,
                 fast |-> fast_mode, op |-> "gfvs",
                 save_path |-> IF save THEN KgPath(now) ELSE NoPath,
                 testset_path |-> IF save THEN TestsetPath(now) ELSE NoPath,
                 testset_size |-> testset_size]
       IN  IF all_docs = <<>>
           THEN /\ call' = c
                /\ log' = <<>>
                /\ calls' = calls + 1
                /\ Ends("gfvs", Result("gfvs", "ValueError", "No documents found", Unbound, NoGraph))
           ELSE KgEnter(c, fast_mode, max_retries) /\ UNCHANGED constructed
    /\ UNCHANGED <<config, knowledge_graph, generator, files, now, store, backVars>>

\* create_testset_from_documents, lines 397-412: a generator of its own, built
\* with the default arguments, and the full-mode build
CreateTestsetFromDocuments(documents, save, testset_size) ==
    /\ MayRun /\ ~constructed
    /\ LET c == [timestamp |-> now, source_file |-> NoFile, documents |-> documents,
                 fast |-> FALSE, op |-> "ctfd",
                 save_path |-> IF save THEN KgPath(now) ELSE NoPath,
                 testset_path |-> IF save THEN TestsetPath(now) ELSE NoPath,
                 testset_size |-> testset_size]
       IN  IF ~gemini_api_key
           THEN /\ call' = c
                /\ log' = <<>>
                /\ calls' = calls + 1
                /\ Ends("ctfd", Result("ctfd", "ValueError", "GEMINI_API_KEY not found",
                                       Unbound, NoGraph))
                /\ UNCHANGED <<max_retries, retry_delay, knowledge_graph, generator>>
           ELSE /\ constructed' = TRUE
                /\ max_retries' = DefaultMaxRetries
                /\ retry_delay' = DefaultRetryDelay
                /\ knowledge_graph' = NoGraph
                /\ generator' = FALSE
                /\ KgEnter(c, FALSE, DefaultMaxRetries)
    /\ UNCHANGED <<gemini_api_key, files, now, store, backVars>>

\* Time passes.  The clock is read only where a run starts (lines 338 and 400),
\* so the seconds that pass inside a call are taken when it has ended.
Tick ==
    /\ Idle /\ now < MaxClock
    /\ now' = now + 1
    /\ UNCHANGED <<config, constructed, knowledge_graph, generator, pc, call, locals, log,
                   result, files, calls, store, backVars>>

(***************************************************************************)
(* backend.py: values and decisions                                        *)
(***************************************************************************)
FileNames == PdfNames \cup {"notes.txt"}

\* file.filename.endswith('.pdf')
IsPdf(filename) == filename \in PdfNames

\* Lengths of the text pdfminer extracts, after strip()
TextLens == {0, MinTextLen - 1, MinTextLen, 50 * MinTextLen}

\* Mutant: a text one character short of the minimum is let through.
InsufficientTextBelow(text_len) == text_len = 0 \/ text_len < MinTextLen - 1

\* line 291: not text or len(text.strip()) < 100
InsufficientText(text_len) == text_len = 0 \/ text_len < MinTextLen

\* line 298: not documents
NoDocuments(documents) == documents = <<>>

\* Distances the store reports, in hundredths.
Distances == {0, 50, 150}

One == 100

\* float(1 - score), in hundredths
Similarity(score) == One - score

\* line 267
IngestUninitialized == ~VECTOR_STORE \/ ~EMBEDDINGS

\* line 336
QueryUninitialized == ~QA_CHAIN \/ ~VECTOR_STORE

\* line 484
TestsetUninitialized == ~VECTOR_STORE

\* lines 372 and 438
NoApiKey == ~groq_api_key

\* The parameters of ContractTestsetGenerator.__init__ (testset_generator.py 33-39)
CtorParams == {"llm_model", "embedding_model", "max_retries", "retry_delay"}

\* The keyword arguments generate_testset passes (backend.py 499-502)
BackendCtorKwargs == {"groq_api_key", "llm_model"}

\* Python raises TypeError on a keyword argument the function does not take.
CtorAccepts(kwargs) == kwargs \subseteq CtorParams

\* The fields of TestsetGenerationRequest (backend.py 79-81)
RequestFields == {"testset_size", "save_to_disk"}

\* What the parsed request keeps of a value sent as `field`: the request model
\* drops the fields it does not declare.
Parsed(field, sent) == IF field \in RequestFields THEN sent ELSE NoFile

\* The keyword arguments generate_testset passes to generate_from_vector_store
\* (backend.py 507-514)
RunKwargs == {"vector_store", "collection_name", "testset_size", "save_dir", "fast_mode"}

\* The source_file generate_from_vector_store works with: the one passed, or its
\* default None
Scope(sent) == IF "source_file" \in RunKwargs THEN Parsed("source_file", sent) ELSE NoFile

NoResponse == [op |-> "none", status |-> 0, detail |-> "", extract |-> 0, chunk |-> 0,
               add |-> 0, search |-> 0, chain |-> 0, ctor |-> 0, answer |-> "",
               sources |-> <<>>, context |-> <<>>, count |-> 0, raised |-> "",
               k |-> 0, found |-> <<>>, text_length |-> 0, requested |-> NoFile,
               scope |-> NoFile]

\* A response: the HTTP status and detail, the collaborator calls made for it and
\* the call that raised, if one did; for a query, the num_results asked for (k) and
\* the pairs the similarity search returned (found); for an ingest, the length
\* of the text extracted (text_length); for a generate-testset request that
\* passed the guards, the source_file the client sent (requested) and the one
\* the handler has to pass on (scope).
Response(op, status, detail) ==
    [NoResponse EXCEPT !.op = op, !.status = status, !.detail = detail]

Uninitialized(op) == Response(op, 400, "System not initialized")

\* Mutant: the DELETE keeps the chunks of the files other than the first chunk's.
DeleteEmbeddingsOfOneFile(embeddings) ==
    SelectSeq(embeddings, LAMBDA d : d.source_file # embeddings[1].source_file)

\* lines 456-460: DELETE FROM langchain_pg_embedding WHERE collection_id = col_uuid
DeleteEmbeddings(embeddings) == <<>>

\* Mutant: the chunks are added one by one, and the first is in when the store raises.
AddDocumentsPerChunk(documents, add_ok) ==
    IF add_ok THEN store \o documents ELSE store \o Prefix(documents, 1)

\* VECTOR_STORE.add_documents(documents): one batch, all or nothing
AddDocuments(documents, add_ok) == IF add_ok THEN store \o documents ELSE store

\* Mutant: the chain is built and assigned before the LLM.
InitStagesChainFirst == <<"embeddings", "store", "chain", "llm">>

\* The stages of initialize_system that can raise, in order.
InitStages == <<"embeddings", "store", "llm", "chain">>

StageIndex(stage) == CHOOSE i \in 1..Len(InitStages) : InitStages[i] = stage

\* Whether the global assigned by `stage` is set when initialize_system raised in
\* fail_at ("none": it did not raise).
Reached(stage, fail_at) ==
    fail_at = "none" \/ StageIndex(stage) < StageIndex(fail_at)

\* Mutant: add_documents is awaited too.
AwaitsAddDocuments(point) == point \in {"read", "add"}

\* Whether a handler awaits at `point`, letting the event loop run other
\* requests: the handlers are coroutines whose only await is file.read() (line 282).
Awaits(point) == point = "read"

\* Mutant: the temporary file is removed only when the ingest succeeded.
CleanupOnSuccess(existing, status) == IF status = 200 THEN existing - 1 ELSE existing

\* lines 323-329: the finally clause unlinks the temporary file however the
\* body ended; `existing` is the number of temporary files before it
Cleanup(existing, status) == existing - 1

(***************************************************************************)
(* backend.py: handlers                                                    *)
(***************************************************************************)
globals == <<groq_api_key, init_state, EMBEDDINGS, VECTOR_STORE, LLM, QA_CHAIN>>

\* initialize_system, run by the startup event
InitializeSystem(fail_at) ==
    /\ init_state = "not_run"
    /\ IF NoApiKey
       THEN /\ init_state' = "failed"
            /\ UNCHANGED <<EMBEDDINGS, VECTOR_STORE, LLM, QA_CHAIN>>
       ELSE /\ init_state' = IF fail_at = "none" THEN "ok" ELSE "failed"
            /\ EMBEDDINGS' = Reached("embeddings", fail_at)
            /\ VECTOR_STORE' = Reached("store", fail_at)
            /\ LLM' = Reached("llm", fail_at)
            /\ QA_CHAIN' = Reached("chain", fail_at)
    /\ UNCHANGED <<groq_api_key, store, pending, temp_files, response, genVars>>

\* GET /
Root ==
    /\ response' = Response("root", 200, IF QA_CHAIN THEN "running" ELSE "not_initialized")
    /\ UNCHANGED <<globals, store, pending, temp_files, genVars>>

\* POST /ingest up to `await file.read()`, lines 263-282
IngestBegin(filename) ==
    /\ IF IngestUninitialized
       THEN /\ response' = Uninitialized("ingest")
            /\ UNCHANGED <<pending, temp_files>>
       ELSE IF ~IsPdf(filename)
       THEN /\ response' = Response("ingest", 400, "Only PDF files are supported")
            /\ UNCHANGED <<pending, temp_files>>
       ELSE /\ Len(pending) < MaxPending
            /\ pending' = Append(pending, filename)
            /\ temp_files' = temp_files + 1
            /\ UNCHANGED response
    /\ UNCHANGED <<globals, store, genVars>>

\* POST /ingest from line 283 to its end
IngestResume(i, extract_ok, text_len, chunk_ok, n, add_ok) ==
    /\ i \in 1..Len(pending)
    /\ Len(store) + n <= MaxStore
    /\ LET filename == pending[i]
           documents == Corpus(filename, n)
           made == [Response("ingest", 0, "") EXCEPT
                       !.text_length = IF extract_ok THEN text_len ELSE 0]
       IN  /\ IF ~extract_ok
              THEN /\ response' = [made EXCEPT !.status = 500, !.detail = "Ingestion failed",
                                               !.extract = 1, !.raised = "extract"]
                   /\ UNCHANGED store
              ELSE IF InsufficientText(text_len)
              THEN /\ response' = [made EXCEPT !.status = 400, !.detail = "insufficient text",
                                               !.extract = 1]
                   /\ UNCHANGED store
              ELSE IF ~chunk_ok
              THEN /\ response' = [made EXCEPT !.status = 500, !.detail = "Ingestion failed",
                                               !.extract = 1, !.chunk = 1,
                                               !.raised = "chunk"]
                   /\ UNCHANGED store
              ELSE IF NoDocuments(documents)
              THEN /\ response' = [made EXCEPT !.status = 400,
                                               !.detail = "Failed to create chunks",
                                               !.extract = 1, !.chunk = 1]
                   /\ UNCHANGED store
              ELSE /\ store' = AddDocuments(documents, add_ok)
                   /\ response' = IF add_ok
                                  THEN [made EXCEPT !.status = 200, !.detail = "success",
                                                    !.extract = 1, !.chunk = 1, !.add = 1,
                                                    !.count = Len(documents)]
                                  ELSE [made EXCEPT !.status = 500,
                                                    !.detail = "Ingestion failed",
                                                    !.extract = 1, !.chunk = 1, !.add = 1,
                                                    !.raised = "add"]
           /\ pending' = IF Awaits("add") /\ response'.add = 1
                         THEN pending
                         ELSE SubSeq(pending, 1, i - 1) \o SubSeq(pending, i + 1, Len(pending))
           /\ temp_files' = Cleanup(temp_files, response'.status)
    /\ UNCHANGED <<globals, genVars>>

\* similarity_search_with_score(query, k): the first k chunks in store order, with
\* the distances the store reports for them
DocsWithScores(k, scores) ==
    [i \in 1..Min(k, Len(store)) |-> [doc |-> store[i], score |-> scores[i]]]

\* Mutant: the ranks are numbered as enumerate numbers them by default, from 0.
SourcesRankedFromZero(docs_with_scores) ==
    [i \in 1..Len(docs_with_scores) |->
        [doc |-> docs_with_scores[i].doc, rank |-> i - 1,
         similarity_score |-> One - docs_with_scores[i].score]]

\* lines 348-359
Sources(docs_with_scores) ==
    [i \in 1..Len(docs_with_scores) |->
        [doc |-> docs_with_scores[i].doc, rank |-> i,
         similarity_score |-> Similarity(docs_with_scores[i].score)]]

\* Mutant: a failed chain call is tried again, and the second call answers.
QueryResponseRetry(docs_with_scores, search_ok, chain_ok) ==
    LET made == Response("query", 0, "")
    IN  IF ~search_ok
        THEN [made EXCEPT !.status = 500, !.detail = "Query failed", !.search = 1,
                          !.raised = "search"]
        ELSE [made EXCEPT !.status = 200, !.detail = "success", !.search = 1,
                          !.chain = IF chain_ok THEN 1 ELSE 2,
                          !.raised = IF chain_ok THEN "" ELSE "chain",
                          !.found = docs_with_scores,
                          !.answer = "result", !.sources = Sources(docs_with_scores),
                          !.context = Prefix(store, num_results)]

\* lines 339-367: what the handler answers once it is past its guard
QueryResponse(docs_with_scores, search_ok, chain_ok) ==
    LET made == Response("query", 0, "")
    IN  IF ~search_ok
        THEN [made EXCEPT !.status = 500, !.detail = "Query failed", !.search = 1,
                          !.raised = "search"]
        ELSE IF ~chain_ok
        THEN [made EXCEPT !.status = 500, !.detail = "Query failed", !.search = 1,
                          !.chain = 1, !.raised = "chain", !.found = docs_with_scores]
        ELSE [made EXCEPT !.status = 200, !.detail = "success", !.search = 1, !.chain = 1,
                          !.found = docs_with_scores,
                          !.answer = "result", !.sources = Sources(docs_with_scores),
                          !.context = Prefix(store, num_results)]

\* POST /query
Query(k, scores, search_ok, chain_ok) ==
    /\ response' = IF QueryUninitialized THEN Uninitialized("query")
                   ELSE [QueryResponse(DocsWithScores(k, scores), search_ok, chain_ok)
                            EXCEPT !.k = k]
    /\ UNCHANGED <<globals, store, pending, temp_files, genVars>>

\* GET /stats
Stats(db_ok) ==
    /\ response' = IF NoApiKey THEN Uninitialized("stats")
                   ELSE IF ~db_ok
                   THEN [Response("stats", 500, "Failed to get stats") EXCEPT !.raised = "db"]
                   ELSE [Response("stats", 200, "success") EXCEPT !.count = Len(store)]
    /\ UNCHANGED <<globals, store, pending, temp_files, genVars>>

\* DELETE /clear
Clear(db_ok) ==
    /\ IF NoApiKey
       THEN response' = Uninitialized("clear") /\ UNCHANGED store
       ELSE IF ~db_ok
       THEN /\ response' = [Response("clear", 500, "Failed to clear collection")
                               EXCEPT !.raised = "db"]
            /\ UNCHANGED store
       ELSE /\ response' = Response("clear", 200, "success")
            /\ store' = DeleteEmbeddings(store)
    /\ UNCHANGED <<globals, pending, temp_files, genVars>>

\* POST /generate-testset
GenerateTestsetRequest(source_file, run_ok, rows) ==
    /\ LET made == [Response("testset", 0, "") EXCEPT !.requested = source_file,
                                                      !.scope = Scope(source_file)]
       IN  response' =
             IF TestsetUninitialized THEN Uninitialized("testset")
             ELSE IF NoApiKey THEN Response("testset", 400, "GROQ_API_KEY not found")
             ELSE IF ~CtorAccepts(BackendCtorKwargs)
             THEN [made EXCEPT !.status = 500, !.detail = "Testset generation failed",
                               !.ctor = 1, !.raised = "ctor"]
             ELSE IF ~gemini_api_key \/ Search(made.scope) = <<>> \/ ~run_ok
             THEN [made EXCEPT !.status = 500, !.detail = "Testset generation failed",
                               !.ctor = 1, !.raised = "run"]
             ELSE [made EXCEPT !.status = 200, !.detail = "success", !.ctor = 1,
                               !.search = 1, !.count = rows]
    /\ UNCHANGED <<globals, store, pending, temp_files, genVars>>

(***************************************************************************)
(* The generator's specifications                                          *)
(***************************************************************************)
GenStore == Corpus("a.pdf", 2) \o Corpus("b.pdf", 1)

RetryCounts == 0..MaxRetries \cup {DefaultMaxRetries}

RetryDelays == {1, DefaultRetryDelay}

\* relationships one successful enrichment adds
RelationshipCounts == {0, 1}

TestsetSizes == {1, 2}

SavePaths(user) == {NoPath, user}

InitObject ==
    /\ constructed = FALSE
    /\ max_retries = DefaultMaxRetries
    /\ retry_delay = DefaultRetryDelay
    /\ knowledge_graph = NoGraph
    /\ generator = FALSE
    /\ pc = "idle"
    /\ call = NoCall
    /\ kg = NoGraph
    /\ skip_transforms = FALSE
    /\ sampled_docs = <<>>
    /\ attempt = 0
    /\ testset = Unbound
    /\ log = <<>>
    /\ result = NoResult
    /\ files = {}
    /\ now = 0
    /\ calls = 0

Steps ==
    \/ \E out \in Outcomes, rels \in RelationshipCounts : MinimalEnrichment(out, rels)
    \/ \E out \in Outcomes, rels \in RelationshipCounts : EnrichAttempt(out, rels)
    \/ KgFinish
    \/ \E out \in Outcomes, rows \in 0..call.testset_size : GenerateAttempt(out, rows)
    \/ GtFinish

\* The backend before its startup event, outside the generator's specifications.
InitGlobals ==
    /\ init_state = "not_run"
    /\ EMBEDDINGS = FALSE
    /\ VECTOR_STORE = FALSE
    /\ LLM = FALSE
    /\ QA_CHAIN = FALSE
    /\ pending = <<>>
    /\ temp_files = 0
    /\ response = NoResponse

\* One generator object and the methods called on it.
InitGen ==
    /\ InitObject /\ InitGlobals
    /\ gemini_api_key \in BOOLEAN
    /\ groq_api_key = TRUE
    /\ store = GenStore

NextGen ==
    \/ \E mr \in RetryCounts, rd \in RetryDelays : Construct(mr, rd)
    \/ \E n \in DocCounts, p \in SavePaths(UserKgPath), skip \in BOOLEAN :
           CreateKnowledgeGraph(Corpus("a.pdf", n), p, skip)
    \/ \E f \in files : LoadKnowledgeGraph(f)
    \/ \E size \in TestsetSizes, p \in SavePaths(UserCsvPath) : GenerateTestset(size, p)
    \/ Steps

SpecGen == InitGen /\ [][NextGen]_vars

\* Whole runs: generate_from_vector_store and create_testset_from_documents.
InitRun ==
    /\ InitObject /\ InitGlobals
    /\ gemini_api_key \in BOOLEAN
    /\ groq_api_key = TRUE
    /\ store \in {<<>>, GenStore}

NextRun ==
    \/ \E mr \in {0, 1} : Construct(mr, DefaultRetryDelay)
    \/ \E f \in {NoFile, "b.pdf"}, save \in BOOLEAN, fast \in BOOLEAN :
           GenerateFromVectorStore(f, save, fast, 1)
    \/ \E n \in {0, 1}, save \in BOOLEAN :
           CreateTestsetFromDocuments(Corpus("a.pdf", n), save, 1)
    \/ Steps
    \/ Tick

SpecRun == InitRun /\ [][NextRun]_vars

\* Corpora at and beyond the cap of the sample: the cap, one more (step 1), twice
\* the cap and one (step 2), three times the cap and three (step 3).
SampleCounts ==
    {max_docs_for_transforms, max_docs_for_transforms + 1,
     2 * max_docs_for_transforms + 1, 3 * max_docs_for_transforms + 3}

\* Builds of the knowledge graph over large corpora.
NextSample ==
    \/ \E mr \in {0, DefaultMaxRetries} : Construct(mr, DefaultRetryDelay)
    \/ \E n \in SampleCounts, skip \in BOOLEAN :
           CreateKnowledgeGraph(Corpus("a.pdf", n), NoPath, skip)
    \/ \E out \in Outcomes, rels \in RelationshipCounts : MinimalEnrichment(out, rels)
    \/ \E out \in Outcomes, rels \in RelationshipCounts : EnrichAttempt(out, rels)
    \/ KgFinish

SpecSample == InitGen /\ [][NextSample]_vars

(***************************************************************************)
(* The backend's specification                                             *)
(***************************************************************************)
InitFailures == {"none", "embeddings", "store", "llm", "chain"}

Ks == {1, num_results}

\* Distances in the order the store ranks them.
Scores == {sc \in [1..MaxStore -> Distances] : \A i \in 1..(MaxStore - 1) : sc[i] <= sc[i + 1]}

\* The outcome of a call the handler does not reach is not drawn: the chunker's
\* after a failed extraction or a short text, the store's after a failed or empty
\* chunking.
IngestConsulted(extract_ok, text_len, chunk_ok, n, add_ok) ==
    /\ ~extract_ok => text_len = 0
    /\ (~extract_ok \/ InsufficientText(text_len)) => chunk_ok /\ n = 0
    /\ (~chunk_ok \/ n = 0) => add_ok
    /\ ~chunk_ok => n = 0

\* Nor are the distances of chunks the search does not return, or the chain's
\* outcome after a search that raised.
QueryConsulted(k, scores, search_ok, chain_ok) ==
    LET returned == IF search_ok THEN Min(k, Len(store)) ELSE 0
    IN  /\ \A i \in (returned + 1)..MaxStore : \A d \in Distances : d <= scores[i]
        /\ ~search_ok => chain_ok

InitBackend ==
    /\ InitObject /\ InitGlobals
    /\ gemini_api_key = TRUE
    /\ groq_api_key \in BOOLEAN
    /\ store = <<>>

NextBackend ==
    \/ \E fail_at \in InitFailures : InitializeSystem(fail_at)
    \/ Root
    \/ \E filename \in FileNames : IngestBegin(filename)
    \/ \E i \in 1..MaxPending, extract_ok \in BOOLEAN, text_len \in TextLens,
          chunk_ok \in BOOLEAN, n \in 0..MaxChunks, add_ok \in BOOLEAN :
           /\ IngestConsulted(extract_ok, text_len, chunk_ok, n, add_ok)
           /\ IngestResume(i, extract_ok, text_len, chunk_ok, n, add_ok)
    \/ \E k \in Ks, scores \in Scores, search_ok \in BOOLEAN, chain_ok \in BOOLEAN :
           /\ QueryConsulted(k, scores, search_ok, chain_ok)
           /\ Query(k, scores, search_ok, chain_ok)
    \/ \E db_ok \in BOOLEAN : Stats(db_ok)
    \/ \E db_ok \in BOOLEAN : Clear(db_ok)
    \/ \E source_file \in PdfNames \cup {NoFile}, run_ok \in BOOLEAN, rows \in 0..MaxChunks :
           GenerateTestsetRequest(source_file, run_ok, rows)

SpecBackend == InitBackend /\ [][NextBackend]_vars

(***************************************************************************)
(* Properties                                                              *)
(***************************************************************************)
\* Positions of the events `ev` in the log
Events(ev) == {i \in DOMAIN log : log[i].ev = ev}

\* Positions of the enrichment attempts: the minimal one and those of the loop
EnrichmentAttempts == Events("minimal") \cup Events("enrich")

Raised(i) == log[i].res # "ok"

RaisedOther(i) == Raised(i) /\ ~IsRateLimit(log[i].res)

\* create_knowledge_graph_from_documents, called directly, has ended
KgEnded == pc = "idle" /\ result.op = "kg"

\* the last build was in fast mode and its minimal enrichment raised
MinimalRaised ==
    /\ call.op = "kg" /\ call.fast
    /\ Len(log) >= 1 /\ log[1].ev = "minimal" /\ Raised(1)

\* C1 (as claimed): while initialize_system has not completed successfully, no
\* ingest is in progress and every ingest, query and generate-testset request is
\* refused with "System not initialized", having called no collaborator.
C1_UninitializedRefused ==
    init_state # "ok" =>
        /\ pending = <<>>
        /\ response.op \in {"ingest", "query", "testset"} =>
               response = Uninitialized(response.op)

\* C2: a step after which the last response is an ingest error (non-PDF name,
\* extraction failure, short text, zero chunks, store exception) leaves the
\* collection as it was; an ingest calls add_documents at most once, and only
\* after extraction and chunking were called and did not raise; a zero-chunk
\* result is rejected without a call to add_documents; a successful ingest
\* appends the chunks it reports as one batch.
C2_FailedIngestAddsNothing ==
    [][response'.op = "ingest" =>
           /\ response'.status # 200 => store' = store
           /\ response'.add <= 1
           /\ response'.add = 1 =>
                  /\ response'.extract = 1 /\ response'.chunk = 1
                  /\ response'.raised \in {"", "add"}
           /\ response'.detail = "Failed to create chunks" =>
                  response'.status = 400 /\ response'.add = 0
           /\ (response'.status = 200 /\ response' # response) =>
                  /\ response'.count > 0
                  /\ Len(store') = Len(store) + response'.count
                  /\ SubSeq(store', 1, Len(store)) = store]_vars

\* an ingest failed on a store exception, on a collection that holds chunks
C2_Witness ==
    /\ response.op = "ingest" /\ response.raised = "add" /\ response.add = 1
    /\ store # <<>>

\* C3: a query whose similarity search or chain call raised ends with
\* "Query failed", without answer or sources; no query calls the search or the
\* chain more than once, and the chain is not called after a search that raised.
C3_QueryFailureSurfaced ==
    response.op = "query" =>
        /\ response.search <= 1 /\ response.chain <= 1
        /\ response.raised = "search" => response.chain = 0
        /\ response.raised \in {"search", "chain"} =>
               /\ response.status = 500
               /\ response.detail = "Query failed"
               /\ response.answer = "" /\ response.sources = <<>>

\* the chain raised after a search over a collection that holds chunks
C3_Witness ==
    /\ response.op = "query" /\ response.raised = "chain" /\ response.chain = 1
    /\ store # <<>>

AllRateLimited == \A i \in EnrichmentAttempts : IsRateLimit(log[i].res)

\* C5 (as claimed): for max_retries >= 1, in either mode, a build whose every
\* enrichment attempt raises a rate-limit error makes exactly max_retries
\* attempts and returns the node-only graph.
C5_ExactlyMaxRetriesAttempts ==
    (KgEnded /\ max_retries >= 1 /\ AllRateLimited) =>
        /\ Cardinality(EnrichmentAttempts) = max_retries
        /\ result.outcome = "returned"
        /\ result.nodes = Len(call.documents) /\ result.relationships = 0

\* C5 (amended): for max_retries >= 1, a build whose every enrichment attempt
\* raises a rate-limit error makes exactly max_retries attempts in full mode and
\* exactly 1 + max_retries in fast mode (the minimal attempt, then the retry
\* loop), and returns the node-only graph.
C5_AttemptsByMode ==
    (KgEnded /\ max_retries >= 1 /\ AllRateLimited) =>
        /\ Cardinality(EnrichmentAttempts) = max_retries + (IF call.fast THEN 1 ELSE 0)
        /\ Cardinality(Events("enrich")) = max_retries
        /\ result.outcome = "returned"
        /\ result.nodes = Len(call.documents) /\ result.relationships = 0

\* a fast-mode build with max_retries = 2 ended after three rate-limited attempts
C5_Witness ==
    /\ KgEnded /\ AllRateLimited /\ call.fast
    /\ max_retries = 2 /\ Cardinality(EnrichmentAttempts) = 3

\* C6 (as claimed): a generate_testset call on a graph, whose every generator
\* call raised a rate-limit error, ends having made exactly max_retries calls,
\* with the "Rate limit exceeded after max_retries attempts" error, no rows and
\* no file written.
C6_RateLimitExhaustion ==
    [][(pc \in {"gt_loop", "gt_done"} /\ pc' = "idle"
        /\ \A i \in DOMAIN log' : log'[i].ev = "generate" => IsRateLimit(log'[i].res)) =>
           /\ Cardinality({i \in DOMAIN log' : log'[i].ev = "generate"}) = max_retries
           /\ result'.outcome = "RateLimitExceeded"
           /\ result'.after = max_retries
           /\ result'.rows = Unbound
           /\ files' = files]_vars

\* C7: a generator exception that is not a rate-limit error is the last thing
\* the call does: no sleep and no generator call follows it, and the call ends
\* by raising that exception.
C7_OtherErrorPropagates ==
    \A i \in Events("generate") :
        RaisedOther(i) =>
            /\ i = Len(log)
            /\ pc = "idle"
            /\ result.outcome = "reraised" /\ result.error = log[i].res
            /\ result.rows = Unbound

\* the second generator call raised a non-rate-limit error
C7_Witness ==
    /\ result.outcome = "reraised" /\ Len(log) = 3
    /\ log[1].ev = "generate" /\ log[2].ev = "sleep_generate" /\ RaisedOther(3)

\* C8 (as claimed): an enrichment attempt that raises a non-rate-limit error is
\* the last enrichment step of the build, and the build returns one node per
\* chunk and no relationships.
C8_OtherErrorEndsEnrichment ==
    \A i \in EnrichmentAttempts :
        RaisedOther(i) =>
            /\ i = Len(log)
            /\ KgEnded => /\ result.outcome = "returned"
                          /\ result.nodes = Len(call.documents)
                          /\ result.relationships = 0

\* C8 (amended): an attempt of the retry loop that raises a non-rate-limit error
\* is the last enrichment step of the build (no retry, no sleep), and the build
\* returns one node per chunk and no relationships; a minimal enrichment that
\* raises such an error is followed by the retry loop when max_retries >= 1, and
\* the build still returns one node per chunk without raising.
C8_OtherErrorEndsLoop ==
    /\ \A i \in Events("enrich") :
           RaisedOther(i) =>
               /\ i = Len(log)
               /\ pc \in {"kg_done", "idle"}
               /\ pc = "kg_done" => kg.relationships = 0
               /\ KgEnded => /\ result.outcome = "returned"
                             /\ result.nodes = Len(call.documents)
                             /\ result.relationships = 0
    /\ \A i \in Events("minimal") :
           RaisedOther(i) =>
               /\ (i = Len(log) /\ pc # "idle" /\ max_retries >= 1) => pc = "kg_loop"
               /\ KgEnded => /\ result.outcome = "returned"
                             /\ result.nodes = Len(call.documents)

\* a full-mode build ended on a non-rate-limit error of its second attempt
C8_Witness ==
    /\ KgEnded /\ ~call.fast /\ Len(log) = 3
    /\ log[2].ev = "sleep_enrich" /\ log[3].ev = "enrich" /\ RaisedOther(3)
    /\ result.nodes > 0

\* C9: generate_testset without a graph raises the precondition error, and has
\* then built no generator, called no collaborator, slept or written no file.
C9_NoGraphPrecondition ==
    [][\A testset_size \in TestsetSizes, save_path \in SavePaths(UserCsvPath) :
           (GenerateTestset(testset_size, save_path) /\ knowledge_graph = NoGraph) =>
               /\ pc' = "idle"
               /\ result'.outcome = "ValueError"
               /\ result'.error = "Knowledge graph not created"
               /\ generator' = generator
               /\ log' = <<>>
               /\ files' = files]_vars

\* generate_testset was refused for want of a graph
C9_Witness ==
    /\ result.op = "gt" /\ result.outcome = "ValueError"
    /\ knowledge_graph = NoGraph /\ ~generator

\* C10: in each retry loop every sleep lasts retry_delay, follows an attempt of
\* its loop that raised a rate-limit error and is followed by the next attempt;
\* two attempts of a loop are never adjacent; a loop that has ended after
\* a >= 1 attempts has slept exactly a - 1 times.
LoopSleeps(attempt_ev, sleep_ev, running, ended) ==
    /\ \A i \in Events(sleep_ev) :
           /\ log[i].secs = retry_delay
           /\ i > 1 /\ log[i - 1].ev = attempt_ev /\ IsRateLimit(log[i - 1].res)
           /\ i < Len(log) => log[i + 1].ev = attempt_ev
           /\ i = Len(log) => pc = running
    /\ \A i \in Events(attempt_ev) : i > 1 => log[i - 1].ev # attempt_ev
    /\ (ended /\ Events(attempt_ev) # {}) =>
           Cardinality(Events(sleep_ev)) = Cardinality(Events(attempt_ev)) - 1

C10_OneSleepBetweenAttempts ==
    /\ LoopSleeps("enrich", "sleep_enrich", "kg_loop", pc \in {"kg_done", "idle"})
    /\ LoopSleeps("generate", "sleep_generate", "gt_loop", pc \in {"gt_done", "idle"})

\* a generation loop ended after two attempts and one sleep
C10_Witness ==
    /\ pc = "idle" /\ result.op = "gt"
    /\ Cardinality(Events("generate")) = 2 /\ Cardinality(Events("sleep_generate")) = 1

\* the chunks a step appended to the collection
Added == SubSeq(store', Len(store) + 1, Len(store'))

\* C11: an ingest that stores the documents chunk_text made of a chunker result
\* of n chunks stores exactly n documents, the j-th holding the j-th chunk, with
\* chunk_id j, total_chunks n and the uploaded file's name; of no chunks,
\* chunk_text makes no documents.
C11_ChunksNumbered ==
    [][/\ \A f \in FileNames : chunk_text(ChunkByTitle(0), f) = <<>>
       /\ (response'.op = "ingest" /\ store' # store) =>
              \E i \in 1..MaxPending, text_len \in TextLens, n \in 1..MaxChunks :
                  /\ IngestResume(i, TRUE, text_len, TRUE, n, TRUE)
                  /\ Len(Added) = n
                  /\ \A j \in 1..n :
                         /\ Added[j].page_content = ChunkByTitle(n)[j]
                         /\ Added[j].chunk_id = j
                         /\ Added[j].total_chunks = n
                         /\ Added[j].source_file = pending[i]]_vars

\* an ingest stored the most chunks a file is cut in
C11_Witness ==
    /\ response.op = "ingest" /\ response.status = 200 /\ response.count = MaxChunks
    /\ Len(store) >= MaxChunks
    /\ store[Len(store)].chunk_id = MaxChunks

\* positions in the collection of the chunks of file f
ChunksOf(f) == {i \in DOMAIN store : store[i].source_file = f}

\* C12 (as claimed): once the system is initialized, for every file in the collection, the chunk_id values of its
\* chunks are unique and are 1..N, and its chunks carry the same total_chunks.
C12_ChunkIdsUniquePerFile ==
    init_state = "ok" =>
        \A f \in FileNames :
            /\ \A i, j \in ChunksOf(f) : store[i].chunk_id = store[j].chunk_id => i = j
            /\ {store[i].chunk_id : i \in ChunksOf(f)} = 1..Cardinality(ChunksOf(f))
            /\ \A i, j \in ChunksOf(f) : store[i].total_chunks = store[j].total_chunks

\* C13: a successful ingest appends to the collection exactly the chunks it
\* reports as chunks_created and keeps those it held; a successful clear leaves
\* it empty; no other step changes it: so its size is the sum of chunks_created
\* since the last successful clear, and only clear removes chunks.
C13_CountIsSumOfIngests ==
    [][/\ store' # store => response'.op \in {"ingest", "clear"} /\ response'.status = 200
       /\ (response'.op = "ingest" /\ store' # store) =>
              /\ SubSeq(store', 1, Len(store)) = store
              /\ Len(store') = Len(store) + response'.count
       /\ (response'.op = "ingest" /\ response'.status = 200 /\ store' = store) =>
              response' = response
       /\ (response'.op = "clear" /\ response'.status = 200) => store' = <<>>
       /\ response'.op \in {"query", "stats", "testset", "root"} => store' = store
       /\ (response'.op = "stats" /\ response'.status = 200) =>
              response'.count = Len(store)]_vars

\* a second ingest succeeded since the last clear: the collection holds more
\* chunks than the ingest created
C13_Witness ==
    /\ response.op = "ingest" /\ response.status = 200
    /\ Len(store) > response.count

\* C14: an ingest whose extracted text is empty or shorter than 100 characters
\* after trimming ends with "insufficient text", having called neither
\* chunk_text nor add_documents, and leaves the collection as it was.
C14_ShortTextRejected ==
    [][(/\ response'.op = "ingest"
        /\ response'.extract = 1 /\ response'.raised # "extract"
        /\ response'.text_length < MinTextLen) =>
           /\ response'.status = 400
           /\ response'.detail = "insufficient text"
           /\ response'.chunk = 0 /\ response'.add = 0
           /\ store' = store]_vars

\* an ingest was rejected for its text, on a collection that holds chunks
C14_Witness ==
    /\ response.op = "ingest" /\ response.detail = "insufficient text"
    /\ response.text_length = MinTextLen - 1
    /\ response.chunk = 0
    /\ store # <<>>

\* C15: a successful query whose similarity search returned the pairs
\* (doc_1, d_1), ..., (doc_m, d_m) answers with m sources, the i-th with rank i,
\* the content and metadata of doc_i and similarity_score 1 - d_i.
C15_SourcesFollowSearch ==
    (response.op = "query" /\ response.status = 200) =>
        /\ Len(response.sources) = Len(response.found)
        /\ \A i \in DOMAIN response.found :
               /\ response.sources[i].rank = i
               /\ response.sources[i].doc = response.found[i].doc
               /\ response.sources[i].similarity_score = One - response.found[i].score
        /\ \A i, j \in DOMAIN response.sources :
               i < j => response.sources[i].rank < response.sources[j].rank

\* a query answered with three sources of different distances
C15_Witness ==
    /\ response.op = "query" /\ response.status = 200
    /\ Len(response.sources) = 3
    /\ response.found[1].score < response.found[3].score

\* C16 (as claimed): every source of a successful query has a similarity_score
\* in [0, 1], and there are at most num_results sources.
C16_SimilarityInUnitInterval ==
    (response.op = "query" /\ response.status = 200) =>
        /\ Len(response.sources) <= response.k
        /\ \A i \in DOMAIN response.sources :
               /\ response.sources[i].similarity_score >= 0
               /\ response.sources[i].similarity_score <= One

\* C17 (as claimed): the chunks given to the model as context in a successful
\* query are the chunks reported as its sources, in the same order.
C17_ContextIsSources ==
    (response.op = "query" /\ response.status = 200) =>
        response.context = [i \in DOMAIN response.sources |-> response.sources[i].doc]

\* a build is in, or past, the enrichment of the branch `if not skip_transforms`
FullEnrichment ==
    /\ call.op = "kg" /\ pc \in {"kg_loop", "kg_done"}
    /\ ~skip_transforms

\* C18: the sample the full enrichment works on is, for a corpus of n > 30
\* chunks, exactly 30 chunks: those at the 0-based indices 0, step, 2*step, ...
\* with step = n // 30, in the corpus's order, without repeats and not all of
\* the corpus; for n <= 30 it is the whole corpus.
C18_EvenStrideSample ==
    FullEnrichment =>
        LET documents == call.documents
            n == Len(documents)
            step == n \div max_docs_for_transforms
        IN  IF n > max_docs_for_transforms
            THEN /\ Len(sampled_docs) = max_docs_for_transforms
                 /\ \A j \in 1..max_docs_for_transforms :
                        sampled_docs[j] = documents[(j - 1) * step + 1]
                 /\ \A i, j \in DOMAIN sampled_docs :
                        i < j => sampled_docs[i].chunk_id < sampled_docs[j].chunk_id
                 /\ \E i \in DOMAIN documents :
                        \A j \in DOMAIN sampled_docs : sampled_docs[j] # documents[i]
            ELSE sampled_docs = documents

\* a corpus of 93 chunks was sampled with step 3: the strided list of 31 chunks
\* was cut to 30
C18_Witness ==
    /\ FullEnrichment
    /\ Len(call.documents) = 3 * max_docs_for_transforms + 3
    /\ Len(sampled_docs) = max_docs_for_transforms
    /\ sampled_docs[max_docs_for_transforms].chunk_id = 3 * (max_docs_for_transforms - 1) + 1

\* C19 (as claimed): for a corpus of n > 30 chunks the sample of the full
\* enrichment holds a chunk whose 0-based index is 30 or more: it is not the
\* prefix of the corpus.
C19_SampleIsNotPrefix ==
    (FullEnrichment /\ Len(call.documents) > max_docs_for_transforms) =>
        /\ \E j \in DOMAIN sampled_docs : sampled_docs[j].chunk_id > max_docs_for_transforms
        /\ sampled_docs # Prefix(call.documents, max_docs_for_transforms)

\* C20: when a build starts, and before any enrichment is attempted, the graph
\* holds one DOCUMENT node per chunk, in the chunks' order, each with its chunk's
\* content and metadata; making the nodes calls no collaborator and cannot end
\* the build; a build none of whose enrichment attempts succeeded returns the
\* node-only graph, with as many nodes as there were chunks.
C20_OneNodePerChunk ==
    [][/\ \A documents \in {Corpus("a.pdf", n) : n \in DocCounts},
             save_path \in SavePaths(UserKgPath), skip \in BOOLEAN :
              CreateKnowledgeGraph(documents, save_path, skip) =>
                  /\ log' = <<>>
                  /\ pc' \in {"kg_minimal", "kg_loop", "kg_done"}
                  /\ Len(kg'.nodes) = Len(documents)
                  /\ kg'.relationships = 0
                  /\ \A i \in DOMAIN documents :
                         /\ kg'.nodes[i].type = "DOCUMENT"
                         /\ kg'.nodes[i].properties = documents[i]
       /\ (/\ pc = "kg_done" /\ pc' = "idle" /\ call.op = "kg"
           /\ \A i \in EnrichmentAttempts : Raised(i)) =>
              /\ result'.outcome = "returned"
              /\ result'.nodes = Len(call.documents)
              /\ result'.relationships = 0
              /\ \A i \in DOMAIN call.documents :
                     /\ knowledge_graph'.nodes[i].type = "DOCUMENT"
                     /\ knowledge_graph'.nodes[i].properties = call.documents[i]]_vars

\* a build over six chunks returned six nodes and no relationship after its
\* enrichment failed
C20_Witness ==
    /\ KgEnded /\ result.nodes = MinimalDocs + 1 /\ result.relationships = 0
    /\ Len(knowledge_graph.nodes) = MinimalDocs + 1
    /\ Len(log) >= 1 /\ Raised(Len(log))

\* the graph of an empty corpus: no nodes, no relationships
EmptyGraph == [nodes |-> <<>>, relationships |-> 0]

\* C21: create_knowledge_graph_from_documents on an empty chunk sequence, in
\* fast or full mode, whatever the enrichment calls do, holds a graph with 0
\* nodes and 0 relationships throughout, and when called directly returns it
\* (0 nodes, 0 relationships) without raising.
C21_EmptyCorpusBuild ==
    /\ (call.documents = <<>> /\ pc \in {"kg_minimal", "kg_loop", "kg_done"}) => kg = EmptyGraph
    /\ (KgEnded /\ call.documents = <<>>) =>
           /\ result.outcome = "returned"
           /\ result.nodes = 0 /\ result.relationships = 0
           /\ knowledge_graph = EmptyGraph

\* C21 witness: a fast-mode build of an empty corpus, on an object that built a
\* graph before, has ended after its minimal enrichment raised.
C21_Witness ==
    /\ KgEnded /\ call.documents = <<>> /\ MinimalRaised
    /\ calls = 2 /\ result.outcome = "returned"

\* C26 (as claimed): for every max_retries >= 0, a generate_testset call that
\* found a graph ends in one of three ways: it returns the rows of a generator
\* call that succeeded, it raises the rate-limit-exceeded error, or it re-raises
\* the generator's own error; it never leaves the loop with none of these.
C26_ThreeOutcomes ==
    (pc = "idle" /\ result.op \in {"gt", "gfvs", "ctfd"}
       /\ result.outcome # "ValueError") =>
        \/ /\ result.outcome = "returned"
           /\ log # <<>> /\ log[Len(log)].ev = "generate" /\ log[Len(log)].res = "ok"
           /\ result.rows # Unbound
        \/ result.outcome = "RateLimitExceeded"
        \/ /\ result.outcome = "reraised"
           /\ log # <<>> /\ RaisedOther(Len(log)) /\ result.error = log[Len(log)].res

\* a build is in progress (inside any of the three entry points)
KgRunning == pc \in {"kg_minimal", "kg_loop", "kg_done"}

\* C27: create_knowledge_graph_from_documents ends after a bounded number of
\* enrichment attempts, whatever the collaborator raises: at most max_retries
\* attempts of the loop, preceded in fast mode only by the one minimal attempt,
\* and at most max_retries - 1 sleeps (none for max_retries = 0); every step of
\* a build in progress logs a call or leaves the enrichment, so the build ends
\* within 2 * max_retries + 1 steps; and a direct call ends by returning, no
\* exception of an enrichment call reaching the caller.
C27_BoundedEnrichment ==
    /\ []((KgRunning \/ KgEnded) =>
            /\ Cardinality(Events("enrich")) <= max_retries
            /\ Cardinality(Events("minimal")) <= (IF call.fast THEN 1 ELSE 0)
            /\ \A i \in Events("minimal") : i = 1
            /\ Cardinality(Events("sleep_enrich")) <=
                   (IF max_retries >= 1 THEN max_retries - 1 ELSE 0)
            /\ Len(log) <= 2 * max_retries + 1
            /\ KgEnded => result.outcome = "returned")
    /\ [][(pc \in {"kg_minimal", "kg_loop"}) =>
             (Len(log') > Len(log) /\ pc' \in {"kg_loop", "kg_done", "idle"})]_vars
    /\ [][pc = "kg_done" => ~KgRunning']_vars

\* C27 witness: a fast-mode build has ended after 1 + max_retries attempts, all
\* of which raised, and max_retries - 1 >= 1 sleeps.
C27_Witness ==
    /\ KgEnded /\ call.fast /\ max_retries >= 2
    /\ Cardinality(EnrichmentAttempts) = 1 + max_retries
    /\ Cardinality(Events("sleep_enrich")) = max_retries - 1
    /\ \A i \in EnrichmentAttempts : Raised(i)

\* C28: QA_CHAIN is set only if EMBEDDINGS, VECTOR_STORE and LLM are all set; a
\* global that is set is never reset; and every answer of the health endpoint
\* reports "running" (initialized) exactly when QA_CHAIN is set at that moment,
\* "not_initialized" otherwise.
C28_ChainImpliesGlobals ==
    /\ [](QA_CHAIN => (EMBEDDINGS /\ VECTOR_STORE /\ LLM))
    /\ [][/\ EMBEDDINGS => EMBEDDINGS'
          /\ VECTOR_STORE => VECTOR_STORE'
          /\ LLM => LLM'
          /\ QA_CHAIN => QA_CHAIN']_vars
    /\ [][(response' # response /\ response'.op = "root") =>
            /\ response'.status = 200
            /\ response'.detail = (IF QA_CHAIN THEN "running" ELSE "not_initialized")]_vars
    /\ [](response.op = "root" => response.detail \in {"running", "not_initialized"})

\* C28 witness: initialize_system failed after the LLM was set (the chain could
\* not be built) and the health endpoint answered "not_initialized".
C28_Witness ==
    /\ init_state = "failed" /\ LLM /\ ~QA_CHAIN
    /\ response.op = "root" /\ response.detail = "not_initialized"

\* C29: every temporary file that exists belongs to an ingest request that is
\* still reading its upload: a request that has returned, whether with success,
\* with a 400 rejection or with a 500 failure, has removed the file it created,
\* and a request refused before the file is created (uninitialized, not a PDF)
\* created none.
C29_TempFileRemoved ==
    /\ [](temp_files = Len(pending))
    /\ [][(response' # response /\ response'.op = "ingest" /\ response'.extract = 0) =>
             (temp_files' = temp_files /\ pending' = pending)]_vars

\* C29 witness: an ingest whose add_documents raised has returned 500 and no
\* temporary file is left.
C29_Witness ==
    /\ response.op = "ingest" /\ response.status = 500 /\ response.raised = "add"
    /\ temp_files = 0 /\ pending = <<>>

\* the collaborator calls (extraction, store, model, generator) a response records
CallsMade(r) == r.extract + r.chunk + r.add + r.search + r.chain + r.ctor

\* C25: handlers do not interleave on the store.  A step in which a handler
\* calls a collaborator or changes the store is the step in which its request
\* ends with a response or an error: an ingest leaves the suspended requests, a
\* query or generate-testset request never joins them.  A request is suspended
\* only at the upload read of ingest, in a step that calls no collaborator and
\* touches neither the store nor the globals.
C25_HandlersRunToCompletion ==
    /\ [][(response' # response \/ store' # store) =>
            /\ response'.status # 0
            /\ (response'.op = "ingest" /\ CallsMade(response') > 0) =>
                   Len(pending') = Len(pending) - 1
            /\ response'.op # "ingest" => pending' = pending]_vars
    /\ [][Len(pending') >= Len(pending) /\ pending' # pending =>
            /\ pending' = Append(pending, pending'[Len(pending')])
            /\ UNCHANGED <<store, response, globals>>]_vars

\* C25 witness: while an ingest request is suspended at its upload read, a
\* query has run its search and its chain and has been answered.
C25_Witness ==
    /\ Len(pending) = 1
    /\ response.op = "query" /\ response.status = 200
    /\ response.search = 1 /\ response.chain = 1

\* a generate-testset request passed both guards and no collaborator failed
TestsetRequestServed ==
    response.op = "testset" /\ response.ctor = 1 /\ response.raised # "run"

\* C22 (as claimed): a generate-testset request that carries a source_file has
\* its graph built from the chunks of that file only: the handler hands the
\* requested file to the generator, which searches with it and reports it.
C22_SingleFileScope ==
    (TestsetRequestServed /\ response.requested # NoFile) =>
        response.scope = response.requested

\* C23 (as claimed): a generate-testset request to an initialized backend whose
\* collection holds a chunk, no collaborator failing, constructs the generator,
\* reads the store's chunks and returns a success response.
C23_TestsetPipeline ==
    (TestsetRequestServed /\ store # <<>>) =>
        /\ response.status = 200
        /\ response.search = 1

\* the paths that hold a file
Paths == {f.path : f \in files}

\* C24 (as claimed): two generation runs that save to the same directory write
\* to distinct paths, so no step of a run replaces a file that an earlier run
\* wrote (stated for max_retries >= 1, where every run makes its attempts).
C24_RunsWriteDistinctPaths ==
    [][max_retries >= 1 => \A f \in files : f \in files']_vars

\* C30: in a run with a save directory the snapshot is written before
\* generation starts and the CSV only by the step in which generation returns:
\* whenever testset_<ts>.csv exists so does knowledge_graph_<ts>.json; while the
\* run is generating, its snapshot exists and holds the graph it built; a step
\* that ends the run with an error writes nothing, leaving the snapshot and no
\* CSV of its own.
C30_SnapshotBeforeCsv ==
    /\ [](\A f \in files : f.path.kind = "testset" => KgPath(f.path.ts) \in Paths)
    /\ []((pc \in {"gt_loop", "gt_done"} /\ call.save_path # NoPath) =>
             [rows |-> Unbound, graph |-> knowledge_graph, path |-> call.save_path] \in files)
    /\ [][(\E f \in files' : f.path.kind = "testset" /\ f \notin files) =>
             (pc = "gt_done" /\ pc' = "idle" /\ result'.outcome = "returned")]_vars
    /\ [][(pc \in {"gt_loop", "gt_done"} /\ pc' = "idle" /\ result'.outcome # "returned") =>
             (files' = files /\ (call.save_path # NoPath => call.save_path \in Paths'))]_vars

\* C30 witness: a saving run has ended with the generator's error; its snapshot
\* exists and no CSV was written.
C30_Witness ==
    /\ pc = "idle" /\ result.op = "gfvs" /\ result.outcome = "reraised"
    /\ call.save_path \in Paths
    /\ \A f \in files : f.path.kind # "testset"
====
